---- MODULE Spec2Model ----
(***************************************************************************)
(* repman: a repository manager keeping git repositories under            *)
(* <home>/repo/<owner>/<name>.  The model covers the four command handlers *)
(* of src/main.rs (add, status, sync, cd), the status classifier and the   *)
(* filesystem they walk.                                                   *)
(*                                                                         *)
(* Strings are sequences of one-character strings, so that split, lines,   *)
(* trim, contains and to_lowercase are computed, not assumed.  A path is   *)
(* the sequence of its components below the repository root.  An external  *)
(* git invocation is an input of the action that makes it: it cannot be    *)
(* started ("spawn"), exits non-zero ("fail") or exits zero ("ok").        *)
(***************************************************************************)
EXTENDS Integers, Sequences, FiniteSets

VARIABLES
    fs,        \* the directory tree: path below the root -> "none" | "file" | "dir"
    cmd,       \* the command that ran last: [op, arg1, arg2]
    exit,      \* how it ended: "ok" (exit 0) or the kind of error it returned
    out,       \* what it printed, in order
    calls,     \* the git invocations it made, in order, with their outcome
    reads,     \* the directories it enumerated with read_dir, in order
    scanned,   \* the (owner, name, path) triples its scan loop reached
    touched,   \* the paths whose kind it changed
    prevAdd,   \* for an add right after an add of the same owner and repo: that run
    lastAdd,   \* between two runs: the run that just ended, when it was an add
    query,     \* classifier check: the status query result given to the classifier
    label      \* classifier check: the label it returned

vars == <<fs, cmd, exit, out, calls, reads, scanned, touched, prevAdd, lastAdd, query, label>>

(***************************************************************************)
(* Bounds.                                                                 *)
(***************************************************************************)
MaxLines == 3

(***************************************************************************)
(* Names.                                                                  *)
(***************************************************************************)
alice == <<"a">>
bob == <<"b">>
foo == <<"f", "o", "o">>
Foobar == <<"F", "o", "o", "b", "a", "r">>
baz == <<"b", "a", "z">>
FOO == <<"F", "O", "O">>
ba == <<"b", "a">>
zz == <<"z", "z">>
Empty == <<>>
Slash == <<"/">>

OwnerNames == {alice, bob}
RepoNames == {foo, Foobar, baz}
Kinds == {"none", "file", "dir"}

(***************************************************************************)
(* String functions of the standard library, as the code uses them.        *)
(***************************************************************************)
RECURSIVE Concat(_)
Concat(ss) == IF ss = <<>> THEN <<>> ELSE Head(ss) \o Concat(Tail(ss))

\* str::contains(pat)
Contains(s, pat) ==
    \E i \in 1..(Len(s) - Len(pat) + 1) : SubSeq(s, i, i + Len(pat) - 1) = pat

\* char::to_lowercase on the letters in use
LowerChar(c) ==
    CASE c = "F" -> "f"
      [] c = "O" -> "o"
      [] c = "B" -> "b"
      [] OTHER -> c

\* str::to_lowercase
ToLower(s) == [i \in 1..Len(s) |-> LowerChar(s[i])]

\* str::split(sep) for a one-character separator: always at least one part
RECURSIVE SplitAcc(_, _, _)
SplitAcc(s, sep, cur) ==
    IF s = <<>> THEN <<cur>>
    ELSE IF Head(s) = sep THEN <<cur>> \o SplitAcc(Tail(s), sep, <<>>)
    ELSE SplitAcc(Tail(s), sep, Append(cur, Head(s)))

Split(s, sep) == SplitAcc(s, sep, <<>>)

\* one line of str::lines: a trailing carriage return is dropped
StripCR(l) ==
    IF l # <<>> /\ l[Len(l)] = "\r" THEN SubSeq(l, 1, Len(l) - 1) ELSE l

\* str::lines: split at line feeds; the last line end is optional
StrLines(s) ==
    LET parts == Split(s, "\n")
        kept == IF parts[Len(parts)] = <<>>
                THEN SubSeq(parts, 1, Len(parts) - 1) ELSE parts
    IN [i \in 1..Len(kept) |-> StripCR(kept[i])]

Whitespace == {" ", "\t", "\r", "\n"}

\* line.trim().is_empty()
TrimIsEmpty(l) == \A i \in 1..Len(l) : l[i] \in Whitespace

(***************************************************************************)
(* The status classifier, get_git_status, on the result of                 *)
(* `git status --porcelain --branch`.  A query result is                   *)
(* [spawned, success, stdout]; an invocation that cannot be started is the *)
(* Err the caller handles.                                                 *)
(***************************************************************************)
AheadMarker == <<"[", "a", "h", "e", "a", "d">>
BehindMarker == <<"[", "b", "e", "h", "i", "n", "d">>

\* the mutant: uncommitted changes are looked at before the tracking line
ClassifyLinesDirtyFirst(lines) ==
    IF lines = <<>> THEN "Clean"
    ELSE IF \E i \in 2..Len(lines) : ~TrimIsEmpty(lines[i]) THEN "Dirty"
    ELSE IF Contains(lines[1], AheadMarker) THEN "Ahead"
    ELSE IF Contains(lines[1], BehindMarker) THEN "Behind"
    ELSE "Clean"

ClassifyLines(lines) ==
    IF lines = <<>> THEN "Clean"
    ELSE IF Contains(lines[1], AheadMarker) THEN "Ahead"
    ELSE IF Contains(lines[1], BehindMarker) THEN "Behind"
    ELSE IF \E i \in 2..Len(lines) : ~TrimIsEmpty(lines[i]) THEN "Dirty"
    ELSE "Clean"

\* Ok(label) of get_git_status, for a query that was started
get_git_status(q) ==
    IF ~q.success THEN "NotARepo" ELSE ClassifyLines(StrLines(q.stdout))

(***************************************************************************)
(* The filesystem below the repository root (get_repo_root: <home>/repo).  *)
(***************************************************************************)
Root == <<>>

\* the places below an owner directory the model follows
RepoSlots == {<<alice, n>> : n \in RepoNames} \cup {<<bob, foo>>}

AllPaths == {Root} \cup {<<o>> : o \in OwnerNames} \cup RepoSlots

\* PathBuf::join of one component: an empty component only adds a trailing
\* separator and names the same place
PathJoin(p, c) == IF c = <<>> THEN p ELSE Append(p, c)

\* Path::file_name
FileName(p) == p[Len(p)]

KindOf(f, p) == IF p \in AllPaths THEN f[p] ELSE "none"

\* Path::exists
Exists(f, p) == KindOf(f, p) # "none"

\* Path::is_dir
IsDir(f, p) == KindOf(f, p) = "dir"

\* a tree: an entry lies in a directory, and the root is a directory or absent
WellFormed(f) ==
    /\ f[Root] # "file"
    /\ \A o \in OwnerNames : f[<<o>>] # "none" => f[Root] = "dir"
    /\ \A p \in RepoSlots : f[p] # "none" => f[<<p[1]>>] = "dir"

\* fs::read_dir(dir): the names of the entries of dir, in the order `ord`
\* the directory listing happens to yield
ReadDir(f, dir, ord) == SelectSeq(ord, LAMBDA c : Exists(f, Append(dir, c)))

\* the orders a listing can come in
OwnerOrders == {<<alice, bob>>, <<bob, alice>>}
RepoOrders == {<<foo, Foobar, baz>>, <<baz, Foobar, foo>>}

(***************************************************************************)
(* What a command leaves behind.                                           *)
(***************************************************************************)
Line(k, owner, name, path, lab) ==
    [k |-> k, owner |-> owner, name |-> name, path |-> path, label |-> lab]

Msg(k) == Line(k, <<>>, <<>>, <<>>, "")
PathMsg(k, path) == Line(k, <<>>, <<>>, path, "")

Call(op, dir, res) == [op |-> op, dir |-> dir, res |-> res]

Outcomes == {"spawn", "fail", "ok"}

NoPrev == [valid |-> FALSE, owner |-> <<>>, repo |-> <<>>, exit |-> "", clones |-> 0]
NoQuery == [spawned |-> FALSE, success |-> FALSE, stdout |-> <<>>]

Command(op, a, b) == [op |-> op, arg1 |-> a, arg2 |-> b]

\* no command is running: the process of the last one has exited
Idle == cmd.op = "none"

(***************************************************************************)
(* The scan of the two-level tree, as show_status and cd_repository walk   *)
(* it: entries that are not directories are skipped at both levels.        *)
(***************************************************************************)
\* if !owner_path.is_dir() { continue; }
OwnerEntryKept(f, p) == IsDir(f, p)

\* the mutant: a repository-level entry is taken whatever it is
RepoEntryKeptAny(f, p) == Exists(f, p)

\* if !repo_path.is_dir() { continue; }
RepoEntryKept(f, p) == IsDir(f, p)

\* the owner directories the outer loop enters, as paths
OwnerDirs(f, oOrd) ==
    LET names == ReadDir(f, Root, oOrd)
        paths == [i \in 1..Len(names) |-> PathJoin(Root, names[i])]
    IN SelectSeq(paths, LAMBDA p : OwnerEntryKept(f, p))

\* the inner loop over one owner directory
ScanOwner(f, owner_path, rOrd) ==
    LET names == ReadDir(f, owner_path, rOrd)
        paths == [i \in 1..Len(names) |-> PathJoin(owner_path, names[i])]
        kept == SelectSeq(paths, LAMBDA p : RepoEntryKept(f, p))
    IN [i \in 1..Len(kept) |->
          [owner |-> FileName(owner_path), name |-> FileName(kept[i]), path |-> kept[i]]]

ScanRepos(f, oOrd, rOrd) ==
    LET owners == OwnerDirs(f, oOrd)
    IN Concat([i \in 1..Len(owners) |-> ScanOwner(f, owners[i], rOrd)])

\* the directories the scan enumerates
ScanReads(f, oOrd) == <<Root>> \o OwnerDirs(f, oOrd)

RepoDirs(f) == {p \in AllPaths : Len(p) = 2 /\ f[p] = "dir"}

\* the entries of the owner directories, whatever they are
RepoEntries(f) == {p \in RepoSlots : f[p] # "none"}

(***************************************************************************)
(* status: show_status.                                                    *)
(***************************************************************************)
\* the status query results a repository can answer with: git cannot be
\* started; git exits non-zero; a branch line that is ahead, with a change
\* line after it
AheadDirtyOut ==
    <<"#", "#", " ", "m", " ", "[", "a", "h", "e", "a", "d", " ", "1", "]", "\n",
      " ", "M", " ", "f", "\n">>

StatusSamples ==
    { [spawned |-> FALSE, success |-> FALSE, stdout |-> <<>>],
      [spawned |-> TRUE, success |-> FALSE, stdout |-> <<>>],
      [spawned |-> TRUE, success |-> TRUE, stdout |-> AheadDirtyOut] }

ResOf(q) == IF ~q.spawned THEN "spawn" ELSE IF q.success THEN "ok" ELSE "fail"

\* get_git_status(&repo_path).unwrap_or_else(|_| "Error")
StatusLabel(q) == IF ~q.spawned THEN "Error" ELSE get_git_status(q)

\* the mutant: the classifier's error is propagated with `?`, ending the loop
StatusRunAbort(refs, qr) ==
    LET bad == {i \in 1..Len(refs) : ~qr[refs[i].path].spawned}
        stop == IF bad = {} THEN Len(refs) + 1
                ELSE CHOOSE i \in bad : \A j \in bad : i <= j
    IN [lines |-> [i \in 1..(stop - 1) |->
                     Line("status", refs[i].owner, refs[i].name, refs[i].path,
                          StatusLabel(qr[refs[i].path]))],
        calls |-> [i \in 1..(IF bad = {} THEN Len(refs) ELSE stop) |->
                     Call("status", refs[i].path, ResOf(qr[refs[i].path]))],
        exit |-> IF bad = {} THEN "ok" ELSE "ProcessError"]

\* the body of the two loops, for the repositories the scan yields
StatusRun(refs, qr) ==
    [lines |-> [i \in 1..Len(refs) |->
                  Line("status", refs[i].owner, refs[i].name, refs[i].path,
                       StatusLabel(qr[refs[i].path]))],
     calls |-> [i \in 1..Len(refs) |->
                  Call("status", refs[i].path, ResOf(qr[refs[i].path]))],
     exit |-> "ok"]

Status(oOrd, rOrd, qr) ==
    /\ Idle
    \* Command::current_dir: nothing can be started in a regular file
    /\ \A p \in DOMAIN qr : fs[p] = "file" => ~qr[p].spawned
    /\ cmd' = Command("status", <<>>, <<>>)
    /\ IF ~Exists(fs, Root)
       THEN /\ out' = <<Msg("root_missing")>>
            /\ exit' = "ok"
            /\ calls' = <<>>
            /\ reads' = <<>>
            /\ scanned' = <<>>
       ELSE LET refs == ScanRepos(fs, oOrd, rOrd)
                run == StatusRun(refs, qr)
            IN /\ out' = <<Msg("header")>> \o run.lines
                         \o (IF run.exit = "ok" /\ run.lines = <<>>
                             THEN <<Msg("no_repos")>> ELSE <<>>)
               /\ exit' = run.exit
               /\ calls' = run.calls
               /\ reads' = ScanReads(fs, oOrd)
               /\ scanned' = refs
    /\ touched' = {}
    /\ prevAdd' = NoPrev
    /\ lastAdd' = NoPrev
    /\ UNCHANGED <<fs, query, label>>

(***************************************************************************)
(* sync: sync_repository.                                                  *)
(***************************************************************************)
\* the first owner directory, in listing order, holding a directory `name`
FindRepo(f, name, oOrd) ==
    LET owners == OwnerDirs(f, oOrd)
        hits == SelectSeq(owners,
                    LAMBDA o : Exists(f, PathJoin(o, name)) /\ IsDir(f, PathJoin(o, name)))
    IN IF hits = <<>> THEN <<>> ELSE <<PathJoin(hits[1], name)>>

\* the mutant: a commit that fails is not checked, and the push follows
SyncRunPushAnyway(dir, oa, od, oc, op) ==
    LET cA == Call("add", dir, oa)
        cD == Call("diff", dir, od)
        cC == Call("commit", dir, oc)
        cP == Call("push", dir, op)
        o1 == <<PathMsg("syncing", dir), Msg("adding")>>
        o2 == o1 \o <<Msg("committing")>>
        o3 == o2 \o <<Msg("pushing")>>
    IN IF oa = "spawn" THEN [calls |-> <<cA>>, exit |-> "ProcessError", out |-> o1]
       ELSE IF oa = "fail" THEN [calls |-> <<cA>>, exit |-> "StageError", out |-> o1]
       ELSE IF od = "spawn" THEN [calls |-> <<cA, cD>>, exit |-> "ProcessError", out |-> o1]
       ELSE IF od = "ok"
            THEN [calls |-> <<cA, cD>>, exit |-> "ok", out |-> o1 \o <<Msg("no_changes")>>]
       ELSE IF oc = "spawn"
            THEN [calls |-> <<cA, cD, cC>>, exit |-> "ProcessError", out |-> o2]
       ELSE IF op = "spawn"
            THEN [calls |-> <<cA, cD, cC, cP>>, exit |-> "ProcessError", out |-> o3]
       ELSE IF op = "fail"
            THEN [calls |-> <<cA, cD, cC, cP>>, exit |-> "PushError", out |-> o3]
       ELSE [calls |-> <<cA, cD, cC, cP>>, exit |-> "ok", out |-> o3 \o <<Msg("synced")>>]

\* the mutant: the staged-diff check is read the wrong way round
SyncRunDiffInverted(dir, oa, od, oc, op) ==
    LET cA == Call("add", dir, oa)
        cD == Call("diff", dir, od)
        cC == Call("commit", dir, oc)
        cP == Call("push", dir, op)
        o1 == <<PathMsg("syncing", dir), Msg("adding")>>
        o2 == o1 \o <<Msg("committing")>>
        o3 == o2 \o <<Msg("pushing")>>
    IN IF oa = "spawn" THEN [calls |-> <<cA>>, exit |-> "ProcessError", out |-> o1]
       ELSE IF oa = "fail" THEN [calls |-> <<cA>>, exit |-> "StageError", out |-> o1]
       ELSE IF od = "spawn" THEN [calls |-> <<cA, cD>>, exit |-> "ProcessError", out |-> o1]
       ELSE IF od = "fail"
            THEN [calls |-> <<cA, cD>>, exit |-> "ok", out |-> o1 \o <<Msg("no_changes")>>]
       ELSE IF oc = "spawn"
            THEN [calls |-> <<cA, cD, cC>>, exit |-> "ProcessError", out |-> o2]
       ELSE IF oc = "fail"
            THEN [calls |-> <<cA, cD, cC>>, exit |-> "CommitError", out |-> o2]
       ELSE IF op = "spawn"
            THEN [calls |-> <<cA, cD, cC, cP>>, exit |-> "ProcessError", out |-> o3]
       ELSE IF op = "fail"
            THEN [calls |-> <<cA, cD, cC, cP>>, exit |-> "PushError", out |-> o3]
       ELSE [calls |-> <<cA, cD, cC, cP>>, exit |-> "ok", out |-> o3 \o <<Msg("synced")>>]

\* the four steps on the repository found, given the outcome of git add,
\* git diff --cached --quiet (exit 0: nothing staged), git commit, git push
SyncRun(dir, oa, od, oc, op) ==
    LET cA == Call("add", dir, oa)
        cD == Call("diff", dir, od)
        cC == Call("commit", dir, oc)
        cP == Call("push", dir, op)
        o1 == <<PathMsg("syncing", dir), Msg("adding")>>
        o2 == o1 \o <<Msg("committing")>>
        o3 == o2 \o <<Msg("pushing")>>
    IN IF oa = "spawn" THEN [calls |-> <<cA>>, exit |-> "ProcessError", out |-> o1]
       ELSE IF oa = "fail" THEN [calls |-> <<cA>>, exit |-> "StageError", out |-> o1]
       ELSE IF od = "spawn" THEN [calls |-> <<cA, cD>>, exit |-> "ProcessError", out |-> o1]
       ELSE IF od = "ok"
            THEN [calls |-> <<cA, cD>>, exit |-> "ok", out |-> o1 \o <<Msg("no_changes")>>]
       ELSE IF oc = "spawn"
            THEN [calls |-> <<cA, cD, cC>>, exit |-> "ProcessError", out |-> o2]
       ELSE IF oc = "fail"
            THEN [calls |-> <<cA, cD, cC>>, exit |-> "CommitError", out |-> o2]
       ELSE IF op = "spawn"
            THEN [calls |-> <<cA, cD, cC, cP>>, exit |-> "ProcessError", out |-> o3]
       ELSE IF op = "fail"
            THEN [calls |-> <<cA, cD, cC, cP>>, exit |-> "PushError", out |-> o3]
       ELSE [calls |-> <<cA, cD, cC, cP>>, exit |-> "ok", out |-> o3 \o <<Msg("synced")>>]

SyncNames == RepoNames \cup {zz}

Sync(name, oOrd, oa, od, oc, op) ==
    /\ Idle
    \* an outcome is drawn only for a step that runs
    /\ oa # "ok" => od = "ok"
    /\ (oa # "ok" \/ od # "fail") => oc = "ok"
    /\ (oa # "ok" \/ od # "fail" \/ oc # "ok") => op = "ok"
    /\ cmd' = Command("sync", name, <<>>)
    /\ IF ~Exists(fs, Root)
       THEN \* fs::read_dir(&repo_root)? on a root that is not there
            /\ exit' = "IOError"
            /\ out' = <<>>
            /\ calls' = <<>>
            /\ reads' = <<>>
       ELSE LET found == FindRepo(fs, name, oOrd)
            IN IF found = <<>>
               THEN /\ exit' = "NotFoundError"
                    /\ out' = <<>>
                    /\ calls' = <<>>
                    /\ reads' = <<Root>>
               ELSE LET run == SyncRun(found[1], oa, od, oc, op)
                    IN /\ exit' = run.exit
                       /\ out' = run.out
                       /\ calls' = run.calls
                       /\ reads' = <<Root>>
    /\ scanned' = <<>>
    /\ touched' = {}
    /\ prevAdd' = NoPrev
    /\ lastAdd' = NoPrev
    /\ UNCHANGED <<fs, query, label>>

(***************************************************************************)
(* add: clone_repository (with ensure_repo_root_exists).                   *)
(***************************************************************************)
\* the mutant: the early return for a path that is already there is missing
RepoDirPresentNever(f, owner, repo) == FALSE

\* if repo_dir.exists() { ... return Ok(()) }
RepoDirPresent(f, owner, repo) == Exists(f, PathJoin(PathJoin(Root, owner), repo))

CloneCount(cs) == Cardinality({i \in 1..Len(cs) : cs[i].op = "clone"})

Add(owner, repo, oc) ==
    LET owner_dir == PathJoin(Root, owner)
        repo_dir == PathJoin(owner_dir, repo)
        madeRoot == ~Exists(fs, Root)
        f1 == IF madeRoot THEN [fs EXCEPT ![Root] = "dir"] ELSE fs
        o1 == IF madeRoot THEN <<Msg("created_root")>> ELSE <<>>
        f2 == IF ~Exists(f1, owner_dir) THEN [f1 EXCEPT ![owner_dir] = "dir"] ELSE f1
        o2 == o1 \o <<PathMsg("cloning", repo_dir)>>
    IN /\ Idle
       /\ cmd' = Command("add", owner, repo)
       /\ IF RepoDirPresent(f1, owner, repo)
          THEN /\ fs' = f1
               /\ out' = o1 \o <<PathMsg("already_exists", repo_dir)>>
               /\ exit' = "ok"
               /\ calls' = <<>>
          ELSE \* git clone creates nothing below a regular file, and it
               \* removes what it created when it fails
               /\ oc = "ok" => IsDir(f2, owner_dir)
               /\ calls' = <<Call("clone", repo_dir, oc)>>
               /\ IF oc = "ok"
                  THEN /\ fs' = [f2 EXCEPT ![repo_dir] = "dir"]
                       /\ out' = o2 \o <<PathMsg("cloned", repo_dir),
                                         PathMsg("navigate", repo_dir)>>
                       /\ exit' = "ok"
                  ELSE /\ fs' = f2
                       /\ out' = o2
                       /\ exit' = IF oc = "spawn" THEN "ProcessError" ELSE "CloneError"
       /\ touched' = {p \in AllPaths : fs'[p] # fs[p]}
       /\ prevAdd' = IF lastAdd.valid /\ lastAdd.owner = owner /\ lastAdd.repo = repo
                     THEN lastAdd ELSE NoPrev
       /\ reads' = <<>>
       /\ scanned' = <<>>
       /\ lastAdd' = NoPrev
       /\ UNCHANGED <<query, label>>

(***************************************************************************)
(* cd: cd_repository.                                                      *)
(***************************************************************************)
\* the mutant: the name is not lowercased before the substring test
MatchPushesCaseSensitive(ref, name) ==
    IF ref.name = name THEN <<ref>>
    ELSE IF Contains(ref.name, ToLower(name)) THEN <<ref>>
    ELSE <<>>

\* what one repository adds to `matches`: exact match, else fuzzy match
MatchPushes(ref, name) ==
    IF ref.name = name THEN <<ref>>
    ELSE IF Contains(ToLower(ref.name), ToLower(name)) THEN <<ref>>
    ELSE <<>>

\* the mutant: any query holding a separator takes the scan
IsOwnerRepoFormNever(name) == FALSE

\* name.contains('/') with parts.len() == 2
IsOwnerRepoForm(name) == Contains(name, Slash) /\ Len(Split(name, "/")) = 2

\* match matches.len() { 0 => ..., 1 => ..., _ => ... }
CdReport(matches, name) ==
    IF Len(matches) = 0 THEN <<Line("no_match", <<>>, name, <<>>, "")>>
    ELSE IF Len(matches) = 1 THEN <<PathMsg("cd", matches[1].path)>>
    ELSE <<Msg("multiple")>>
         \o [i \in 1..Len(matches) |->
               Line("candidate", matches[i].owner, matches[i].name, matches[i].path, "")]
         \o <<Msg("hint")>>

Q(owner, repo) == owner \o Slash \o repo

BareQueries == {foo, FOO, ba, zz, Empty}
OwnerRepoQueries == {Q(o, n) : o \in {alice, bob, Empty}, n \in {foo, baz, Empty, alice}}
LongQueries == {Q(alice, Q(foo, Empty))}
CdQueries == BareQueries \cup OwnerRepoQueries \cup LongQueries

Cd(name, oOrd, rOrd) ==
    /\ Idle
    /\ cmd' = Command("cd", name, <<>>)
    /\ exit' = "ok"
    /\ IF ~Exists(fs, Root)
       THEN /\ out' = <<Msg("root_missing")>>
            /\ reads' = <<>>
            /\ scanned' = <<>>
       ELSE IF IsOwnerRepoForm(name)
       THEN LET parts == Split(name, "/")
                repo_path == PathJoin(PathJoin(Root, parts[1]), parts[2])
            IN /\ out' = IF Exists(fs, repo_path)
                         THEN <<PathMsg("cd", repo_path)>>
                         ELSE <<PathMsg("not_found", repo_path)>>
               /\ reads' = <<>>
               /\ scanned' = <<>>
       ELSE LET refs == ScanRepos(fs, oOrd, rOrd)
                matches == Concat([i \in 1..Len(refs) |-> MatchPushes(refs[i], name)])
            IN /\ out' = CdReport(matches, name)
               /\ reads' = ScanReads(fs, oOrd)
               /\ scanned' = refs
    /\ calls' = <<>>
    /\ touched' = {}
    /\ prevAdd' = NoPrev
    /\ lastAdd' = NoPrev
    /\ UNCHANGED <<fs, query, label>>

(***************************************************************************)
(* The program: one command per run, on the tree the runs before left.     *)
(***************************************************************************)
Init ==
    /\ fs \in {f \in [AllPaths -> Kinds] : WellFormed(f)}
    /\ cmd = Command("none", <<>>, <<>>)
    /\ exit = "ok"
    /\ out = <<>>
    /\ calls = <<>>
    /\ reads = <<>>
    /\ scanned = <<>>
    /\ touched = {}
    /\ prevAdd = NoPrev
    /\ lastAdd = NoPrev
    /\ query = NoQuery
    /\ label = "none"

\* main returns and the process exits: what it printed and did is over, the
\* tree stays
ProcessExit ==
    /\ ~Idle
    /\ cmd' = Command("none", <<>>, <<>>)
    /\ exit' = "ok"
    /\ out' = <<>>
    /\ calls' = <<>>
    /\ reads' = <<>>
    /\ scanned' = <<>>
    /\ touched' = {}
    /\ prevAdd' = NoPrev
    /\ lastAdd' = IF cmd.op = "add"
                  THEN [valid |-> TRUE, owner |-> cmd.arg1, repo |-> cmd.arg2,
                        exit |-> exit, clones |-> CloneCount(calls)]
                  ELSE NoPrev
    /\ UNCHANGED <<fs, query, label>>

Next ==
    \/ \E p \in RepoSlots, oc \in Outcomes : Add(p[1], p[2], oc)
    \/ \E oOrd \in OwnerOrders, rOrd \in RepoOrders,
          qr \in [RepoEntries(fs) -> StatusSamples] : Status(oOrd, rOrd, qr)
    \/ \E n \in SyncNames, oOrd \in OwnerOrders,
          oa \in Outcomes, od \in Outcomes, oc \in Outcomes, op \in Outcomes :
            Sync(n, oOrd, oa, od, oc, op)
    \/ \E q \in CdQueries, oOrd \in OwnerOrders, rOrd \in RepoOrders : Cd(q, oOrd, rOrd)
    \/ ProcessExit

Spec == Init /\ [][Next]_vars

(***************************************************************************)
(* The classifier on its own: every output of up to MaxLines lines drawn   *)
(* from the sample lines, each ended by a line feed.                       *)
(***************************************************************************)
BranchLine == <<"#", "#", " ", "m">>
BranchAhead == BranchLine \o <<" ">> \o AheadMarker \o <<" ", "1", "]">>
BranchBehind == BranchLine \o <<" ">> \o BehindMarker \o <<" ", "2", "]">>
BranchDiverged ==
    BranchLine \o <<" ">> \o AheadMarker \o <<" ", "1", ",", " ", "b", "e", "h", "i", "n", "d", " ", "2", "]">>
ChangeLine == <<" ", "M", " ", "f">>
UntrackedMarkerLine == <<"?", "?", " ">> \o AheadMarker
BlankLine == <<" ", "\t">>
CRLine == <<"\r">>

LineSamples ==
    {BranchLine, BranchAhead, BranchBehind, BranchDiverged, ChangeLine,
     UntrackedMarkerLine, BlankLine, CRLine, <<>>}

RECURSIVE SeqsUpTo(_, _)
SeqsUpTo(S, n) ==
    IF n = 0 THEN {<<>>}
    ELSE LET shorter == SeqsUpTo(S, n - 1)
         IN shorter \cup {Append(s, x) : s \in shorter, x \in S}

Outputs ==
    {Concat([i \in 1..Len(ls) |-> ls[i] \o <<"\n">>]) : ls \in SeqsUpTo(LineSamples, MaxLines)}

InitClassify ==
    /\ fs = [p \in AllPaths |-> "none"]
    /\ cmd = Command("none", <<>>, <<>>)
    /\ exit = "ok"
    /\ out = <<>>
    /\ calls = <<>>
    /\ reads = <<>>
    /\ scanned = <<>>
    /\ touched = {}
    /\ prevAdd = NoPrev
    /\ lastAdd = NoPrev
    /\ query \in {[spawned |-> TRUE, success |-> ok, stdout |-> o] :
                    ok \in BOOLEAN, o \in Outputs}
    /\ label = "none"

\* get_git_status returns Ok(label) for the query result it was given
Classify ==
    /\ label = "none"
    /\ label' = get_git_status(query)
    /\ UNCHANGED <<fs, cmd, exit, out, calls, reads, scanned, touched, prevAdd, lastAdd,
                   query>>

NextClassify == Classify

SpecClassify == InitClassify /\ [][NextClassify]_vars

(***************************************************************************)
(* What the claims speak of.                                               *)
(***************************************************************************)
\* the line carries the marker somewhere
HasMarker(line, m) ==
    \E i \in 1..Len(line) :
        /\ i + Len(m) - 1 <= Len(line)
        /\ \A j \in 1..Len(m) : line[i + j - 1] = m[j]

\* the line has a character that is not white space
NonBlank(line) == \E i \in 1..Len(line) : line[i] \notin {" ", "\t", "\r", "\n"}

QueryLines == StrLines(query.stdout)

\* C1: for every status-query result the classifier returns the label of the
\* ordered decision list: non-success exit -> NotARepo; no lines -> Clean;
\* first line with the ahead marker -> Ahead (whatever change lines follow);
\* first line with the behind marker -> Behind; otherwise Dirty when a line
\* after the first is non-blank, else Clean.
C1_DecisionList ==
    label # "none" =>
        /\ ~query.success => label = "NotARepo"
        /\ (query.success /\ query.stdout = <<>>) => label = "Clean"
        /\ (query.success /\ query.stdout # <<>>) =>
             LET first == QueryLines[1]
                 ahead == HasMarker(first, AheadMarker)
                 behind == HasMarker(first, BehindMarker)
                 changes == \E i \in 2..Len(QueryLines) : NonBlank(QueryLines[i])
             IN /\ ahead => label = "Ahead"
                /\ (~ahead /\ behind) => label = "Behind"
                /\ (~ahead /\ ~behind /\ changes) => label = "Dirty"
                /\ (~ahead /\ ~behind /\ ~changes) => label = "Clean"

\* C1 witness: a branch line that is ahead, followed by a change line, was
\* classified as Ahead
C1_AheadWithChanges ==
    /\ query.success
    /\ Len(QueryLines) >= 2
    /\ HasMarker(QueryLines[1], AheadMarker)
    /\ NonBlank(QueryLines[2])
    /\ label = "Ahead"

\* the operations of the git invocations made, in order
CallOps == [i \in 1..Len(calls) |-> calls[i].op]

SyncSteps == <<"add", "diff", "commit", "push">>

\* C2: sync runs stage, staged-diff check, commit, push in that order, each at
\* most once and nothing else (no retry, no rollback); commit only after a
\* stage that succeeded, push only after a commit that succeeded; a step that
\* fails is the last one and sync ends with an error.
C2_SyncStrictOrder ==
    cmd.op = "sync" =>
        /\ \E n \in 0..4 : CallOps = SubSeq(SyncSteps, 1, n)
        /\ \A i \in 1..Len(calls) :
             /\ calls[i].op = "commit" =>
                  \E j \in 1..(i - 1) : calls[j].op = "add" /\ calls[j].res = "ok"
             /\ calls[i].op = "push" =>
                  \E j \in 1..(i - 1) : calls[j].op = "commit" /\ calls[j].res = "ok"
             /\ ((calls[i].op \in {"add", "commit", "push"} /\ calls[i].res # "ok")
                   \/ calls[i].res = "spawn") =>
                  (i = Len(calls) /\ exit # "ok")
             /\ calls[i].dir = calls[1].dir

\* C2 witness: the commit succeeded, the push failed, and sync ended with the
\* push error, the commit left in place
C2_CommittedUnpushed ==
    /\ cmd.op = "sync"
    /\ CallOps = SyncSteps
    /\ calls[3].res = "ok"
    /\ calls[4].res = "fail"
    /\ exit = "PushError"

\* staging succeeded and the staged diff was found empty
StagedNothing ==
    /\ \E i \in 1..Len(calls) : calls[i].op = "add" /\ calls[i].res = "ok"
    /\ \E i \in 1..Len(calls) : calls[i].op = "diff" /\ calls[i].res = "ok"

\* C3: when staging succeeds and the staged diff is empty, sync stops with
\* "nothing to commit" and exit 0, and makes no commit and no push invocation.
C3_NothingToCommit ==
    (cmd.op = "sync" /\ StagedNothing) =>
        /\ exit = "ok"
        /\ out # <<>> /\ out[Len(out)].k = "no_changes"
        /\ \A i \in 1..Len(calls) : calls[i].op \notin {"commit", "push"}

\* C3 witness: a sync that staged, found nothing staged and stopped
C3_StoppedAfterStaging ==
    /\ cmd.op = "sync"
    /\ StagedNothing
    /\ Len(calls) = 2
    /\ exit = "ok"

SeparatorCount(q) == Cardinality({i \in 1..Len(q) : q[i] = "/"})

\* the repositories whose directory name equals the query or holds it as a
\* substring, letter case set aside
MatchSet(q) ==
    {p \in RepoDirs(fs) : p[2] = q \/ HasMarker(ToLower(p[2]), ToLower(q))}

\* C5: for a cd query without a separator the matches are exactly the scanned
\* repositories whose name equals the query or contains it case-insensitively,
\* each once; cd reports not-found when there is none (for an absent root: that
\* the root is not there), emits the path when there is one, and lists every
\* match between a heading and the disambiguation hint when there are more.
C5_BareQueryMatches ==
    (cmd.op = "cd" /\ SeparatorCount(cmd.arg1) = 0) =>
        LET M == MatchSet(cmd.arg1)
        IN /\ M = {} =>
                /\ Len(out) = 1
                /\ out[1].k = IF Exists(fs, Root) THEN "no_match" ELSE "root_missing"
           /\ Cardinality(M) = 1 =>
                \E p \in M : out = <<PathMsg("cd", p)>>
           /\ Cardinality(M) > 1 =>
                /\ Len(out) = Cardinality(M) + 2
                /\ out[1].k = "multiple"
                /\ out[Len(out)].k = "hint"
                /\ \A i \in 2..(Len(out) - 1) :
                     /\ out[i].k = "candidate"
                     /\ out[i].path = <<out[i].owner, out[i].name>>
                /\ {out[i].path : i \in 2..(Len(out) - 1)} = M

\* C5 witness: repositories foo, Foobar and baz, and the query foo listing foo
\* and Foobar, not baz
C5_FooFoobarNotBaz ==
    /\ cmd.op = "cd" /\ cmd.arg1 = foo
    /\ {<<alice, foo>>, <<alice, Foobar>>, <<alice, baz>>} \subseteq RepoDirs(fs)
    /\ ~IsDir(fs, <<bob, foo>>)
    /\ {out[i].path : i \in 2..(Len(out) - 1)} = {<<alice, foo>>, <<alice, Foobar>>}
    /\ Len(out) = 4

\* the place an owner/name query names
QueryPlace(q) ==
    LET cut == CHOOSE i \in 1..Len(q) : q[i] = "/"
        owner == SubSeq(q, 1, cut - 1)
        name == SubSeq(q, cut + 1, Len(q))
    IN (IF owner = <<>> THEN <<>> ELSE <<owner>>) \o (IF name = <<>> THEN <<>> ELSE <<name>>)

\* C6: a cd query with exactly one separator enumerates no directory; it ends
\* with one report, the path root/owner/name when that exists and a not-found
\* message otherwise (for an absent root: that the root is not there).
C6_OwnerRepoQueryNoScan ==
    (cmd.op = "cd" /\ SeparatorCount(cmd.arg1) = 1) =>
        /\ reads = <<>>
        /\ scanned = <<>>
        /\ calls = <<>>
        /\ exit = "ok"
        /\ out = IF ~Exists(fs, Root) THEN <<Msg("root_missing")>>
                 ELSE IF Exists(fs, QueryPlace(cmd.arg1))
                 THEN <<PathMsg("cd", QueryPlace(cmd.arg1))>>
                 ELSE <<PathMsg("not_found", QueryPlace(cmd.arg1))>>

\* C6 witness: alice/foo resolved while other repositories exist
C6_DirectHit ==
    /\ cmd.op = "cd" /\ cmd.arg1 = Q(alice, foo)
    /\ out = <<PathMsg("cd", <<alice, foo>>)>>
    /\ Cardinality(RepoDirs(fs)) >= 2
    /\ reads = <<>>

\* the lines status printed for repositories
StatusLines == SelectSeq(out, LAMBDA l : l.k = "status")

\* C7: in status, a repository whose status invocation cannot be run gets the
\* label Error and the command goes on: every (owner-dir, repo-dir) pair under
\* the root gets its own line, and status ends successfully.
C7_StatusIsolatesFailures ==
    (cmd.op = "status" /\ Exists(fs, Root)) =>
        /\ exit = "ok"
        /\ Len(StatusLines) = Cardinality(RepoDirs(fs))
        /\ {l.path : l \in {StatusLines[i] : i \in 1..Len(StatusLines)}} = RepoDirs(fs)
        /\ \A i \in 1..Len(StatusLines) :
             /\ StatusLines[i].path = <<StatusLines[i].owner, StatusLines[i].name>>
             /\ \E j \in 1..Len(calls) :
                  /\ calls[j].op = "status" /\ calls[j].dir = StatusLines[i].path
                  /\ calls[j].res = "spawn" <=> StatusLines[i].label = "Error"

\* C7 witness: a repository whose query could not be run, labelled Error,
\* and a later one in the same run that got its label
C7_ErrorThenAhead ==
    /\ cmd.op = "status"
    /\ \E i, j \in 1..Len(StatusLines) :
         /\ i < j
         /\ StatusLines[i].label = "Error"
         /\ StatusLines[j].label = "Ahead"

\* the scan ran: status, or cd with a query without separator, on a root that is there
ScanRan ==
    /\ Exists(fs, Root)
    /\ cmd.op = "status" \/ (cmd.op = "cd" /\ SeparatorCount(cmd.arg1) = 0)

\* C8: the scan yields exactly one RepositoryRef per directory at depth two,
\* its path root/owner/name, and none for an entry that is not a directory, at
\* the owner level or at the repository level.
C8_ScanYieldsRepoDirs ==
    ScanRan =>
        /\ \A p \in RepoDirs(fs) :
             Cardinality({i \in 1..Len(scanned) : scanned[i].path = p}) = 1
        /\ \A i \in 1..Len(scanned) :
             /\ scanned[i].path \in RepoDirs(fs)
             /\ scanned[i].path = <<scanned[i].owner, scanned[i].name>>

\* C8 witness: a scan by cd over a tree with a file at the owner level, a file
\* at the repository level and two repositories
C8_ScanSkipsFiles ==
    /\ ScanRan /\ cmd.op = "cd"
    /\ fs[<<bob>>] = "file"
    /\ fs[<<alice, baz>>] = "file"
    /\ Len(scanned) = 2

\* C9: sync works on a directory named `name` in an owner directory; when no
\* owner directory holds one, the root being empty or absent included, sync
\* fails with NotFoundError and makes no git invocation.
C9_SyncNotFound ==
    cmd.op = "sync" =>
        IF \E o \in OwnerNames : IsDir(fs, <<o, cmd.arg1>>)
        THEN /\ calls # <<>>
             /\ \A i \in 1..Len(calls) :
                  /\ FileName(calls[i].dir) = cmd.arg1
                  /\ IsDir(fs, calls[i].dir)
        ELSE exit = "NotFoundError" /\ calls = <<>>

\* C10: a path cd emits for navigation is root/owner/name of a repository the
\* scan would yield: a directory at depth two, owner and name not empty.
C10_CdEmitsRepoDir ==
    cmd.op = "cd" =>
        \A i \in 1..Len(out) :
            out[i].k = "cd" =>
                /\ Len(out[i].path) = 2
                /\ out[i].path[1] # <<>> /\ out[i].path[2] # <<>>
                /\ IsDir(fs, out[i].path)

====
